---- MODULE Spec2Model ----
(***************************************************************************)
(* uu.record: the ordered, UUID-keyed record container of                  *)
(* src/uu/record/base.py (class RecordContainer) as a state machine.       *)
(*                                                                         *)
(* Python values are written as strings (their repr); record objects are   *)
(* heap cells named "r1", "r2", ... so that two references to one object   *)
(* alias each other as they do in Python.                                  *)
(***************************************************************************)
EXTENDS Integers, Sequences, FiniteSets, TLC

\* ---------------------------------------------------------------------
\* Bounds of the model
\* ---------------------------------------------------------------------
MaxRecs == 3          \* record objects alive at once
MaxBatch == 2         \* entries in one update_all batch
MaxOffset == 2        \* largest |offset| passed to reorder

\* ---------------------------------------------------------------------
\* Python values
\* ---------------------------------------------------------------------
UIDS == {"u1", "u2"}             \* 36-character str forms of two UUIDs
Absent == "<absent>"             \* a key / attribute that is not there
PyNone == "None"
NoRef == "r0"                    \* no record object
RecName == <<"r1", "r2", "r3", "r4", "r5">>
RecIds == {RecName[i] : i \in 1..MaxRecs}

Unicode(s) == CASE s = "u1" -> "u'u1'" [] s = "u2" -> "u'u2'" [] OTHER -> s
UUIDObj(s) == CASE s = "u1" -> "UUID('u1')" [] s = "u2" -> "UUID('u2')" [] OTHER -> s
UnicodeUIDS == {Unicode(u) : u \in UIDS}
UUIDObjs == {UUIDObj(u) : u \in UIDS}

\* type(value).__name__
PyType(v) ==
    CASE v \in {"1", "2"} -> "int"
      [] v \in UIDS \cup {"'None'", "'1'", "'2'", ""} -> "str"
      [] v \in UnicodeUIDS \cup {"u'1'"} -> "unicode"
      [] v \in UUIDObjs -> "UUID"
      [] v \in {"[]", "[1]", "[...]"} -> "list"
      [] v = "{}" -> "dict"
      [] v = "<function>" -> "function"
      [] v = PyNone -> "NoneType"
      [] v \in {RecName[i] : i \in 1..Len(RecName)} -> "Record"
      [] OTHER -> "object"

\* str(value)
PyStr(v) ==
    CASE v = "u'u1'" -> "u1" [] v = "u'u2'" -> "u2"
      [] v = "UUID('u1')" -> "u1" [] v = "UUID('u2')" -> "u2"
      [] v = PyNone -> "'None'"
      [] v = "1" -> "'1'" [] v = "2" -> "'2'"
      [] v = "u'1'" -> "'1'"
      [] OTHER -> v

\* not value
Falsy(v) == v \in {PyNone, "", "[]", "{}"}

\* len(s) == 36 for a str s
Len36(s) == s \in UIDS

\* the elements a sequence value iterates over
SeqElems(v) == CASE v = "[1]" -> {"1"} [] v = "[...]" -> {"{...}"} [] OTHER -> {}

\* ---------------------------------------------------------------------
\* list helpers (PersistentList is a Python list)
\* ---------------------------------------------------------------------
Range(f) == {f[x] : x \in DOMAIN f}
ToSet(s) == {s[i] : i \in 1..Len(s)}
NoDup(s) == \A i, j \in 1..Len(s) : s[i] = s[j] => i = j

\* list.index(x): 1-based position of the first x
ListIndex(s, x) == CHOOSE i \in 1..Len(s) : s[i] = x /\ \A j \in 1..(i - 1) : s[j] # x
\* list.pop(i) leaves this list
ListDelAt(s, i) == SubSeq(s, 1, i - 1) \o SubSeq(s, i + 1, Len(s))
\* list.remove(x): drop the first x
ListRemove(s, x) == ListDelAt(s, ListIndex(s, x))
\* list.insert(off, x) for off >= 0 (0-based; beyond the end appends)
ListInsert(s, off, x) ==
    LET k == IF off > Len(s) THEN Len(s) ELSE off
    IN SubSeq(s, 1, k) \o <<x>> \o SubSeq(s, k + 1, Len(s))

Abs(n) == IF n < 0 THEN -n ELSE n

\* ---------------------------------------------------------------------
\* State
\* ---------------------------------------------------------------------
VARIABLES
    entries,    \* RecordContainer._entries : key -> record object
    order,      \* RecordContainer._order   : list of keys
    heap,       \* the record objects: record_uid, attributes, _p_changed
    cattr,      \* the attribute record_uid of the container itself
    held,       \* the record object the caller holds (last one returned)
    indexer,    \* RecordCatalog.indexer : index name -> index object
    supported,  \* RecordCatalog.supported : schema name -> SchemaInfo
    _index_owners,  \* RecordCatalog._index_owners : index name -> schema names
    utilities   \* the site manager's named utilities : <<provided, name>>

vars == <<entries, order, heap, cattr, held, indexer, supported, _index_owners,
          utilities>>

DataKeys == {"record_uid", "count", "entries"}   \* keys a field-mapping may carry
FieldKeys == DataKeys \ {"record_uid"}            \* attributes a record may get

NoAttrs == [k \in FieldKeys |-> Absent]
NoRec == [record_uid |-> Absent, attrs |-> NoAttrs, pstate |-> "free"]
NoData == [k \in DataKeys |-> Absent]             \* {} (or data=None)

\* The value of v, worked out once, handed to F (a local name in the
\* code: the call it stands for is made once).
Bind(v, F(_)) == CHOOSE r \in {F(x) : x \in {v}} : TRUE

\* The running call: the container, the heap, what was notified so far,
\* the pending exception and the value returned.
Machine(en, ord, hp, ca, hd) ==
    [entries |-> en, order |-> ord, heap |-> hp, cattr |-> ca, held |-> hd,
     events |-> <<>>, exc |-> "none", ret |-> NoRef]
Cur == Machine(entries, order, heap, cattr, held)

Raise(m, e) == [m EXCEPT !.exc = e]
notify(m, ev) == [m EXCEPT !.events = Append(@, ev)]

ObjectCreatedEvent(m, rid) ==
    [kind |-> "created", obj |-> m.heap[rid].record_uid, name |-> Absent, attrs |-> {}]
ObjectAddedEvent(m, rid, uid) ==
    [kind |-> "added", obj |-> m.heap[rid].record_uid, name |-> uid, attrs |-> {}]
ObjectRemovedEvent(m, rid, uid) ==
    [kind |-> "removed", obj |-> m.heap[rid].record_uid, name |-> uid, attrs |-> {}]
ObjectModifiedEvent(m, rid, names) ==
    [kind |-> "modified", obj |-> m.heap[rid].record_uid, name |-> Absent, attrs |-> names]
ContainerModifiedEvent ==
    [kind |-> "modified", obj |-> "container", name |-> Absent, attrs |-> {}]

\* RECORD_INTERFACE.providedBy(x)
providedBy(x) == x \in RecIds

\* dict item assignment / deletion on _entries
DictSet(d, k, v) == [x \in DOMAIN d \cup {k} |-> IF x = k THEN v ELSE d[x]]
DictDel(d, k) == [x \in DOMAIN d \ {k} |-> d[x]]
DictGet(d, k, default) == IF k \in DOMAIN d THEN d[k] ELSE default

\* ---------------------------------------------------------------------
\* Record (persistent.Persistent)
\* ---------------------------------------------------------------------
\* A free heap cell for a new object: one no reference reaches.
Reachable(m) == Range(m.entries) \cup {m.held, m.ret}
FreeCells(m) == {i \in 1..MaxRecs : RecName[i] \notin Reachable(m)}
HasRoom(m) == FreeCells(m) # {}
Alloc(m) == RecName[CHOOSE i \in FreeCells(m) : \A j \in FreeCells(m) : i <= j]

\* Record.__init__(context, uid): uid None draws a random uuid4 (fresh)
Record(m, uid, fresh) ==
    LET rid == Alloc(m)
        u == IF uid = PyNone THEN fresh ELSE uid
    IN [m EXCEPT !.heap[rid] = [record_uid |-> PyStr(u), attrs |-> NoAttrs,
                                pstate |-> "new"],
                 !.ret = rid]

\* Persistent: a change to an object that has a jar flags it changed; an
\* object without a jar (never committed) keeps _p_changed False.
MarkChanged(m, rid) ==
    IF m.heap[rid].pstate = "saved" THEN [m EXCEPT !.heap[rid].pstate = "changed"] ELSE m
p_changed(m, rid) == m.heap[rid].pstate = "changed"
\* setattr(record, key, value)
SetAttr(m, rid, key, value) ==
    MarkChanged([m EXCEPT !.heap[rid].attrs[key] = value], rid)

\* ---------------------------------------------------------------------
\* RecordContainer: IWriteContainer
\* ---------------------------------------------------------------------
\* container[key] = value
__setitem__(m, key, value) ==
    LET coerced == PyType(key) \in {"UUID", "unicode"}
        k == IF coerced THEN PyStr(key) ELSE key
    IN IF ~coerced /\ ~(PyType(key) = "str" /\ Len36(key)) THEN Raise(m, "KeyError")
       ELSE IF ~providedBy(value) THEN Raise(m, "ValueError")
       ELSE [m EXCEPT !.entries = DictSet(@, k, value),
                      !.order = IF k \in ToSet(@) THEN @ ELSE Append(@, k)]

\* del container[record]
__delitem__(m, record) ==
    LET uid == IF providedBy(record) THEN PyStr(m.heap[record].record_uid)
               ELSE IF PyType(record) = "UUID" THEN PyStr(record)
               ELSE record
    IN IF ~(PyType(uid) = "str" /\ Len36(uid)) THEN Raise(m, "ValueError")
       ELSE IF uid \notin DOMAIN m.entries THEN Raise(m, "ValueError")
       ELSE LET rec == IF providedBy(record) THEN record ELSE m.entries[uid]
            IN notify([m EXCEPT !.order = IF uid \in ToSet(@) THEN ListRemove(@, uid) ELSE @,
                                !.entries = DictDel(@, uid)],
                      ObjectRemovedEvent(m, rec, uid))

\* ---------------------------------------------------------------------
\* RecordContainer: ordering
\* ---------------------------------------------------------------------
\* reorder inserting the UID before taking the old occurrence out
reorder_insert_before_pop(m, record, offset) ==
    LET off == Abs(offset)
        uid == IF providedBy(record) THEN m.heap[record].record_uid ELSE record
    IN IF Falsy(uid) \/ uid \notin ToSet(m.order) THEN Raise(m, "ValueError")
       ELSE [m EXCEPT !.order = ListRemove(ListInsert(@, off, uid), uid)]

reorder(m, record, offset) ==
    LET off == Abs(offset)
        uid == IF providedBy(record) THEN m.heap[record].record_uid ELSE record
    IN IF Falsy(uid) \/ uid \notin ToSet(m.order) THEN Raise(m, "ValueError")
       ELSE [m EXCEPT !.order = ListInsert(ListDelAt(@, ListIndex(@, uid)), off, uid)]

\* updateOrder without the test for duplicate keys
updateOrder_allows_duplicates(m, neworder) ==
    IF Len(neworder) # Len(m.order) THEN Raise(m, "ValueError")
    ELSE IF ToSet(neworder) \ ToSet(m.order) # {} THEN Raise(m, "ValueError")
    ELSE [m EXCEPT !.order = neworder]

updateOrder(m, neworder) ==
    IF Len(neworder) # Len(m.order) THEN Raise(m, "ValueError")
    ELSE IF Len(neworder) # Cardinality(ToSet(neworder)) THEN Raise(m, "ValueError")
    ELSE IF ToSet(neworder) \ ToSet(m.order) # {} THEN Raise(m, "ValueError")
    ELSE [m EXCEPT !.order = neworder]

\* ---------------------------------------------------------------------
\* RecordContainer: IReadContainer
\* ---------------------------------------------------------------------
get(m, uid, default) ==
    LET u == IF providedBy(uid) THEN m.heap[uid].record_uid ELSE uid
    IN DictGet(m.entries, PyStr(u), default)

__contains__(m, record) ==
    IF providedBy(record) THEN get(m, record, PyNone) # PyNone
    ELSE PyStr(record) \in DOMAIN m.entries

__len__(m) == Len(m.order)

\* container[key]
__getitem__(m, key) ==
    LET v == get(m, key, PyNone)
    IN IF v = PyNone THEN Raise(m, "KeyError") ELSE [m EXCEPT !.ret = v]

keys(m) == m.order

\* ---------------------------------------------------------------------
\* RecordContainer: field copy
\* ---------------------------------------------------------------------
TYPE_WHITELIST == {"int", "long", "str", "unicode", "bool", "float", "time.time",
                   "datetime", "date", "timedelta", "Decimal"}
SEQUENCE_WHITELIST == {"list", "tuple", "set", "frozenset", "PersistentList"}
MAPPING_WHITELIST == {"dict", "PersistentDict"}

\* "ok", or the exception raised.  The mapping branch reads the loop
\* variable v before it is bound; the sequence branch looks the element
\* values themselves up among the whitelisted types.
_type_whitelist_validation(value) ==
    LET vtype == PyType(value)
    IN IF vtype \in MAPPING_WHITELIST THEN "UnboundLocalError"
       ELSE IF vtype \in SEQUENCE_WHITELIST
            THEN IF \E v \in SeqElems(value) : v \notin TYPE_WHITELIST
                 THEN "ValueError" ELSE "ok"
       ELSE IF vtype \notin TYPE_WHITELIST THEN "ValueError" ELSE "ok"

\* key.startswith('_')
StartsWithUnderscore(key) == key \in {"_bad_name"}

\* getattr(self, key, None) on the container
ContainerGetAttr(m, key) ==
    IF key = "record_uid" /\ m.cattr # Absent THEN m.cattr ELSE PyNone

\* one turn of the loop over data.items(); st = [m, changelog]
PopulateItem(st, record, key, value) ==
    IF StartsWithUnderscore(key) THEN st
    ELSE IF key = "record_uid" THEN [st EXCEPT !.m.cattr = PyStr(value)]
    ELSE LET v == _type_whitelist_validation(value) IN
         IF v = "ValueError" THEN st
         ELSE IF v # "ok" THEN [st EXCEPT !.m = Raise(@, v)]
         ELSE LET existing_value == ContainerGetAttr(st.m, key) IN
              IF value # existing_value
              THEN [m |-> SetAttr(st.m, record, key, value),
                    changelog |-> st.changelog \cup {key}]
              ELSE st

\* the loop over data.items(), in the dict's iteration order ko
RECURSIVE PopulateLoop(_, _, _, _, _)
PopulateLoop(st, record, data, ko, i) ==
    IF i > Len(ko) \/ st.m.exc # "none" THEN st
    ELSE IF data[ko[i]] = Absent THEN PopulateLoop(st, record, data, ko, i + 1)
    ELSE Bind(PopulateItem(st, record, ko[i], data[ko[i]]),
              LAMBDA s : PopulateLoop(s, record, data, ko, i + 1))

_populate_record(m, record, data, ko) ==
    Bind(PopulateLoop([m |-> m, changelog |-> {}], record, data, ko, 1),
         LAMBDA st :
            IF st.m.exc # "none" THEN st.m
            ELSE IF st.changelog # {}
                 THEN notify(MarkChanged(st.m, record),
                             ObjectModifiedEvent(st.m, record, st.changelog))
            ELSE st.m)

\* ---------------------------------------------------------------------
\* RecordContainer: CRUD
\* ---------------------------------------------------------------------
\* bool(data) for a mapping
NonEmpty(data) == \E k \in DOMAIN data : data[k] # Absent

\* create that also stores the record it made
create_and_store(m, data, fresh, ko) ==
    LET uid == IF data["record_uid"] # Absent THEN data["record_uid"] ELSE fresh
    IN Bind(Record(m, uid, fresh), LAMBDA m1 :
       Bind(IF NonEmpty(data) THEN _populate_record(m1, m1.ret, data, ko) ELSE m1,
            LAMBDA m2 :
               IF m2.exc # "none" THEN [m2 EXCEPT !.ret = NoRef]
               ELSE notify([m2 EXCEPT !.entries = DictSet(@, PyStr(uid), m1.ret),
                                      !.order = IF PyStr(uid) \in ToSet(@) THEN @
                                                ELSE Append(@, PyStr(uid))],
                           ObjectCreatedEvent(m2, m1.ret))))

\* create announcing the record before the fields are copied
create_notifies_first(m, data, fresh, ko) ==
    LET uid == IF data["record_uid"] # Absent THEN data["record_uid"] ELSE fresh
    IN Bind(Record(m, uid, fresh), LAMBDA m1 :
       Bind(notify(m1, ObjectCreatedEvent(m1, m1.ret)), LAMBDA m2 :
       Bind(IF NonEmpty(data) THEN _populate_record(m2, m1.ret, data, ko) ELSE m2,
            LAMBDA m3 :
               IF m3.exc # "none" THEN [m3 EXCEPT !.ret = NoRef] ELSE m3)))

create(m, data, fresh, ko) ==
    LET uid == IF data["record_uid"] # Absent THEN data["record_uid"] ELSE fresh
    IN Bind(Record(m, uid, fresh), LAMBDA m1 :
       Bind(IF NonEmpty(data) THEN _populate_record(m1, m1.ret, data, ko) ELSE m1,
            LAMBDA m2 :
               IF m2.exc # "none" THEN [m2 EXCEPT !.ret = NoRef]
               ELSE notify(m2, ObjectCreatedEvent(m2, m1.ret))))

\* add with the membership test on _order inverted
add_inverted_membership(m, record) ==
    LET uid == PyStr(m.heap[record].record_uid)
    IN IF Falsy(uid) THEN Raise(m, "ValueError")
       ELSE notify([m EXCEPT !.entries = DictSet(@, uid, record),
                             !.order = IF uid \in ToSet(@) THEN Append(@, uid) ELSE @],
                   ObjectAddedEvent(m, record, uid))

add(m, record) ==
    LET uid == PyStr(m.heap[record].record_uid)
    IN IF Falsy(uid) THEN Raise(m, "ValueError")
       ELSE notify([m EXCEPT !.entries = DictSet(@, uid, record),
                             !.order = IF uid \in ToSet(@) THEN @ ELSE Append(@, uid)],
                   ObjectAddedEvent(m, record, uid))

\* _ad_hoc_fieldlist: the public attribute names of record whose values
\* pass the whitelist (context, the container, never does)
_ad_hoc_fieldlist(m, record) ==
    {"record_uid"} \cup
    {k \in FieldKeys : /\ m.heap[record].attrs[k] # Absent
                       /\ _type_whitelist_validation(m.heap[record].attrs[k]) = "ok"}

_filtered_data(m, record) ==
    LET fieldnames == _ad_hoc_fieldlist(m, record)
    IN [k \in DataKeys |->
          IF k \notin fieldnames THEN Absent
          ELSE IF k = "record_uid" THEN m.heap[record].record_uid
          ELSE m.heap[record].attrs[k]]

\* update(data, suppress_notify); arg is [rec |-> a record or NoRef, map |-> a mapping]
update(m, arg, suppress_notify, ko) ==
    LET isrec == providedBy(arg.rec)
        uid0 == IF isrec THEN m.heap[arg.rec].record_uid
                ELSE IF arg.map["record_uid"] = Absent THEN PyNone
                ELSE arg.map["record_uid"]
    IN IF uid0 = PyNone THEN Raise(m, "ValueError")
       ELSE Bind(IF isrec THEN _filtered_data(m, arg.rec) ELSE arg.map, LAMBDA data :
            LET uid == PyStr(uid0)
                found == get(m, uid, PyNone)
            IN Bind(IF found # PyNone
                    THEN [_populate_record(m, found, data, ko) EXCEPT !.ret = found]
                    ELSE Bind(create(m, data, uid, ko),
                              LAMBDA c : IF c.exc # "none" THEN c ELSE add(c, c.ret)),
                    LAMBDA m1 :
                       IF m1.exc # "none" THEN [m1 EXCEPT !.ret = NoRef]
                       ELSE IF ~suppress_notify /\ p_changed(m1, m1.ret)
                            THEN notify(m1, ContainerModifiedEvent)
                       ELSE m1))

\* ---------------------------------------------------------------------
\* JSON text
\* ---------------------------------------------------------------------
\* A JSON document is written by its structure: an array of objects, or
\* one object.  An object maps member names to JSON tokens; the token
\* "[...]" for the member entries stands for the array doc.items.
JStr(u) == CASE u = "u1" -> "\"u1\"" [] u = "u2" -> "\"u2\"" [] OTHER -> u

\* json.loads of one token: strings come back as unicode, null as None
json_loads_value(t) ==
    CASE t = "\"u1\"" -> "u'u1'" [] t = "\"u2\"" -> "u'u2'"
      [] t = "null" -> PyNone
      [] OTHER -> t
json_loads_object(o) == [k \in DOMAIN o |-> json_loads_value(o[k])]
json_loads(doc) ==
    [type |-> IF doc.kind = "array" THEN "list" ELSE "dict",
     items |-> [i \in 1..Len(doc.items) |-> json_loads_object(doc.items[i])],
     d |-> json_loads_object(doc.obj)]

\* json.dumps of one value: str and unicode both become a JSON string
json_dumps_value(v) ==
    CASE v \in UIDS -> JStr(v)
      [] v \in UnicodeUIDS -> JStr(PyStr(v))
      [] v = PyNone -> "null"
      [] OTHER -> v
json_dumps_object(o) == [k \in DOMAIN o |-> json_dumps_value(o[k])]
\* json.dumps(sequence of mappings)
json_dumps(seq) ==
    [kind |-> "array",
     items |-> [i \in 1..Len(seq) |-> json_dumps_object(seq[i])],
     obj |-> NoData]

\* ---------------------------------------------------------------------
\* RecordContainer.update_all
\* ---------------------------------------------------------------------
_process_container_metadata(m, data) == FALSE

\* the loop "for entry_data in data"; st = [m, modified]
RECURSIVE UpdateAllLoop(_, _, _, _)
UpdateAllLoop(st, data, i, ko) ==
    IF i > Len(data) \/ st.m.exc # "none" THEN st
    ELSE IF data[i]["record_uid"] = Absent
         THEN [st EXCEPT !.m = Raise(@, "ValueError")]
    ELSE Bind(update(st.m, [rec |-> NoRef, map |-> data[i]], TRUE, ko), LAMBDA m1 :
            IF m1.exc # "none" THEN [st EXCEPT !.m = m1]
            ELSE Bind([m |-> m1, modified |-> st.modified \/ p_changed(m1, m1.ret)],
                      LAMBDA s : UpdateAllLoop(s, data, i + 1, ko)))

\* the loop "for deluid in remove_uids", the set iterated in the order so
RECURSIVE RemoveLoop(_, _, _, _)
RemoveLoop(m, remove_uids, so, i) ==
    IF i > Len(so) \/ m.exc # "none" THEN m
    ELSE IF so[i] \in remove_uids
         THEN Bind(__delitem__(m, so[i]), LAMBDA m1 : RemoveLoop(m1, remove_uids, so, i + 1))
    ELSE RemoveLoop(m, remove_uids, so, i + 1)

\* lines 808-819 with _order extended by uids instead of replaced
UpdateAllBody_extends_order(m, data, hasuids, uids, modified0, ko, so) ==
    Bind(UpdateAllLoop([m |-> m, modified |-> modified0], data, 1, ko), LAMBDA st :
       IF st.m.exc # "none" THEN [st.m EXCEPT !.ret = NoRef]
       ELSE IF ~hasuids THEN [Raise(st.m, "NameError") EXCEPT !.ret = NoRef]
       ELSE LET remove_uids == ToSet(keys(st.m)) \ ToSet(uids)
            IN Bind(RemoveLoop(st.m, remove_uids, so, 1), LAMBDA m2 :
                  IF m2.exc # "none" THEN [m2 EXCEPT !.ret = NoRef]
                  ELSE Bind([m2 EXCEPT !.order = @ \o uids, !.ret = NoRef], LAMBDA m3 :
                          IF Len(data) > 0 /\ st.modified
                          THEN notify(m3, ContainerModifiedEvent)
                          ELSE m3)))

\* lines 808-819, with uids bound (hasuids) or never assigned
UpdateAllBody(m, data, hasuids, uids, modified0, ko, so) ==
    Bind(UpdateAllLoop([m |-> m, modified |-> modified0], data, 1, ko), LAMBDA st :
       IF st.m.exc # "none" THEN [st.m EXCEPT !.ret = NoRef]
       ELSE IF ~hasuids THEN [Raise(st.m, "NameError") EXCEPT !.ret = NoRef]
       ELSE LET remove_uids == ToSet(keys(st.m)) \ ToSet(uids)
            IN Bind(RemoveLoop(st.m, remove_uids, so, 1), LAMBDA m2 :
                  IF m2.exc # "none" THEN [m2 EXCEPT !.ret = NoRef]
                  ELSE Bind([m2 EXCEPT !.order = uids, !.ret = NoRef], LAMBDA m3 :
                          IF Len(data) > 0 /\ st.modified
                          THEN notify(m3, ContainerModifiedEvent)
                          ELSE m3)))

\* update_all taking any object with a member entries for a wrapper
update_all_any_entries_member(m, data, ko, so) ==
    IF data.type \in {"str", "unicode"}
    THEN Bind(json_loads(data.doc), LAMBDA loaded :
         LET wrapper == /\ loaded.type = "dict"
                        /\ loaded.d["entries"] # Absent
             modified0 == IF wrapper THEN _process_container_metadata(m, loaded) ELSE FALSE
         IN Bind(IF loaded.type = "dict" /\ ~wrapper THEN <<loaded.d>> ELSE loaded.items,
                 LAMBDA items :
                    IF \E i \in 1..Len(items) : items[i]["record_uid"] = Absent
                    THEN Raise(m, "KeyError")
                    ELSE Bind([i \in 1..Len(items) |-> PyStr(items[i]["record_uid"])],
                              LAMBDA uids :
                                 UpdateAllBody(m, items, TRUE, uids, modified0, ko, so))))
    ELSE UpdateAllBody(m, data.seq, FALSE, <<>>, FALSE, ko, so)

\* update_all(data); data is [type |-> "str", doc |-> a JSON document] or
\* [type |-> "list", seq |-> a sequence of mappings]
update_all(m, data, ko, so) ==
    IF data.type \in {"str", "unicode"}
    THEN Bind(json_loads(data.doc), LAMBDA loaded :
         LET wrapper == /\ loaded.type = "dict"
                        /\ loaded.d["entries"] # Absent
                        /\ PyType(loaded.d["entries"]) = "list"
             modified0 == IF wrapper THEN _process_container_metadata(m, loaded) ELSE FALSE
         IN Bind(IF loaded.type = "dict" /\ ~wrapper THEN <<loaded.d>> ELSE loaded.items,
                 LAMBDA items :
                    IF \E i \in 1..Len(items) : items[i]["record_uid"] = Absent
                    THEN Raise(m, "KeyError")
                    ELSE Bind([i \in 1..Len(items) |-> PyStr(items[i]["record_uid"])],
                              LAMBDA uids :
                                 UpdateAllBody(m, items, TRUE, uids, modified0, ko, so))))
    ELSE UpdateAllBody(m, data.seq, FALSE, <<>>, FALSE, ko, so)

\* ---------------------------------------------------------------------
\* BTreeRecordContainer
\* ---------------------------------------------------------------------
\* BTreeRecordContainer.__init__ hands _impl to RecordContainer.__init__
\* as its first positional argument: factory is OOBTree, and _entries the
\* default PersistentDict.  _populate_record on the object the factory
\* made: an OOBTree takes no attribute, the first setattr raises.
RECURSIVE OOBTreePopulate(_, _, _, _)
OOBTreePopulate(m, data, ko, i) ==
    IF i > Len(ko) THEN m
    ELSE LET key == ko[i]
             value == data[key]
             v == _type_whitelist_validation(value)
         IN IF value = Absent \/ StartsWithUnderscore(key)
            THEN OOBTreePopulate(m, data, ko, i + 1)
            ELSE IF key = "record_uid"
            THEN OOBTreePopulate([m EXCEPT !.cattr = PyStr(value)], data, ko, i + 1)
            ELSE IF v = "ValueError" THEN OOBTreePopulate(m, data, ko, i + 1)
            ELSE IF v # "ok" THEN Raise(m, v)
            ELSE IF value # ContainerGetAttr(m, key) THEN Raise(m, "AttributeError")
            ELSE OOBTreePopulate(m, data, ko, i + 1)

\* create() of the B-tree variant: self.factory(context=self, uid=uid) is
\* OOBTree(context=..., uid=...), a TypeError with the Python BTrees and
\* an empty OOBTree with the C BTrees, which ignore keyword arguments
BTreeRecordContainer_create(m, data, ko, build) ==
    IF build = "python" THEN Raise(m, "TypeError")
    ELSE LET m1 == IF NonEmpty(data) THEN OOBTreePopulate(m, data, ko, 1) ELSE m
         IN IF m1.exc # "none" THEN m1
            ELSE notify([m1 EXCEPT !.ret = "OOBTree()"],
                        [kind |-> "created", obj |-> "OOBTree()", name |-> Absent,
                         attrs |-> {}])

\* ---------------------------------------------------------------------
\* Inputs the calls are made with
\* ---------------------------------------------------------------------
SeqsUpTo(S, n) == UNION {[1..k -> S] : k \in 0..n}
Perms(S) == {p \in [1..Cardinality(S) -> S] : \A i, j \in 1..Cardinality(S) : p[i] = p[j] => i = j}

\* Iteration orders of a dict's items and of a set of keys: fixed by the
\* interpreter build, unknown to the program.  The order of the items
\* shows only when a value of a mapping type cuts the loop short, the
\* order of the set only when two keys are removed.
DefaultKeyOrder == <<"record_uid", "count", "entries">>
KeyOrders == {DefaultKeyOrder, <<"count", "record_uid", "entries">>}
SetOrders == Perms(UIDS)
KeyOrdersFor(data) ==
    IF \E k \in DOMAIN data : data[k] # Absent /\ PyType(data[k]) \in {"dict"}
    THEN KeyOrders ELSE {DefaultKeyOrder}
KeyOrdersForAll(seq) ==
    IF \E i \in 1..Len(seq) : Cardinality(KeyOrdersFor(seq[i])) > 1
    THEN KeyOrders ELSE {DefaultKeyOrder}
SetOrdersFor(keylist) ==
    IF Cardinality(ToSet(keylist)) > 1 THEN SetOrders ELSE {<<"u1", "u2">>}

\* values offered for the field count: ints, a function, a list, a dict
CountInputs == {Absent, "1", "2", "<function>", "[1]", "{}"}

Mapping(uid, count) == [record_uid |-> uid, count |-> count, entries |-> Absent]
\* the mappings create and update are called with
Mappings ==
    {Mapping("u1", c) : c \in CountInputs}
    \cup {Mapping(u, c) : u \in {"u2", Absent}, c \in {Absent, "1"}}
\* the entries of a batch: two UIDs, and an entry without UID
BatchMappings == {Mapping("u1", "1"), Mapping("u2", "1"), Mapping(Absent, "1")}
Batches == SeqsUpTo(BatchMappings, MaxBatch)

\* JSON documents: an array of objects, a bare object (possibly with a
\* member entries that is not an array), an envelope around an array
JsonArray(items) == [kind |-> "array", items |-> items, obj |-> NoData]
JsonObject(o) == [kind |-> "object", items |-> <<>>, obj |-> o]
JsonEnvelope(items) ==
    [kind |-> "object", items |-> items,
     obj |-> [record_uid |-> Absent, count |-> Absent, entries |-> "[...]"]]
JsonObjects == {json_dumps_object(b) : b \in BatchMappings}
JsonBatches == SeqsUpTo(JsonObjects, MaxBatch)
BareObjects == JsonObjects \cup {[o EXCEPT !["entries"] = "null"] : o \in JsonObjects}
JsonDocs == {JsonArray(b) : b \in JsonBatches}
            \cup {JsonObject(o) : o \in BareObjects}
            \cup {JsonEnvelope(b) : b \in SeqsUpTo(JsonObjects, 1)}
DocItems(doc) == IF doc.kind = "array" \/ doc.obj["entries"] = "[...]" THEN doc.items ELSE <<doc.obj>>

TextData(doc) == [type |-> "str", doc |-> doc, seq |-> <<>>]
SeqData(seq) == [type |-> "list", doc |-> JsonArray(<<>>), seq |-> seq]

\* ---------------------------------------------------------------------
\* The state machine
\* ---------------------------------------------------------------------
Init ==
    /\ entries = <<>>
    /\ order = <<>>
    /\ heap = [r \in RecIds |-> NoRec]
    /\ cattr = Absent
    /\ held = NoRef
    /\ indexer = <<>>
    /\ supported = <<>>
    /\ _index_owners = <<>>
    /\ utilities = {}

\* Object addresses carry no meaning: after a call the live objects are
\* renamed in the order the keys and then the caller reach them, and the
\* cells no reference reaches are collected.
KeySeq == <<"u1", "u2", "'1'", "'2'", "'None'">>
RefSeq(m, hd) ==
    [i \in 1..(Len(KeySeq) + 1) |->
        IF i <= Len(KeySeq) THEN DictGet(m.entries, KeySeq[i], NoRef) ELSE hd]
Renaming(m, hd) ==
    LET L == RefSeq(m, hd)
    IN [x \in ToSet(L) \ {NoRef} |->
          RecName[Cardinality({L[j] : j \in 1..(ListIndex(L, x) - 1)} \ {NoRef}) + 1]]

\* The container lives in a ZODB and the host commits after the call
\* (spec section 5): every record the container reaches then has a jar
\* and is saved.
Committed(m, x) ==
    IF x \in Range(m.entries) THEN [m.heap[x] EXCEPT !.pstate = "saved"] ELSE m.heap[x]

\* what a call leaves behind, the caller then holding hd
Finish(m, hd) ==
    \E ren \in {Renaming(m, hd)} :
        /\ entries' = [k \in DOMAIN m.entries |-> ren[m.entries[k]]]
        /\ order' = m.order
        /\ cattr' = m.cattr
        /\ held' = IF hd = NoRef THEN NoRef ELSE ren[hd]
        /\ heap' = [r \in RecIds |->
                      IF \E x \in DOMAIN ren : ren[x] = r
                      THEN Committed(m, CHOOSE x \in DOMAIN ren : ren[x] = r)
                      ELSE NoRec]
        /\ UNCHANGED <<indexer, supported, _index_owners, utilities>>

\* record = container.create(data), data without a UID: uuid4 draws one
\* that no record carries yet
Create ==
    \E data \in {d \in Mappings : d["record_uid"] = Absent} :
    \E ko \in KeyOrdersFor(data),
       fresh \in UIDS \ (DOMAIN entries \cup {heap[r].record_uid : r \in RecIds}) :
    \E m \in {create([Cur EXCEPT !.held = NoRef], data, fresh, ko)} :
        Finish(m, m.ret)

\* record = container.create(data), data with a UID
CreateWithUid ==
    \E data \in {d \in Mappings : d["record_uid"] # Absent} :
    \E ko \in KeyOrdersFor(data) :
    \E m \in {create([Cur EXCEPT !.held = NoRef], data, data["record_uid"], ko)} :
        Finish(m, m.ret)

\* container.add(record)
Add ==
    /\ held # NoRef
    /\ \E m \in {add(Cur, held)} : Finish(m, held)

\* container[key] = value
SetItem ==
    \E key \in {"u1", Unicode("u1"), "'1'"}, value \in {held, "1"} :
        /\ value # NoRef
        /\ \E m \in {__setitem__(Cur, key, value)} : Finish(m, held)

\* del container[record]
DelItem ==
    \E record \in {"u1", UUIDObj("u2"), held, "'1'"} :
        /\ record # NoRef
        /\ \E m \in {__delitem__(Cur, record)} : Finish(m, held)

Reorder ==
    \E record \in UIDS \cup {held}, offset \in (-MaxOffset)..MaxOffset :
        /\ record # NoRef
        /\ \E m \in {reorder(Cur, record, offset)} : Finish(m, held)

UpdateOrder ==
    \E neworder \in SeqsUpTo(UIDS, Cardinality(UIDS)) :
    \E m \in {updateOrder(Cur, neworder)} :
        Finish(m, held)

\* record = container.update(data), data a mapping
Update ==
    \E data \in Mappings :
    \E ko \in KeyOrdersFor(data) :
    \E m \in {update(Cur, [rec |-> NoRef, map |-> data], FALSE, ko)} :
        Finish(m, IF m.exc = "none" THEN m.ret ELSE held)

\* record = container.update(record), data the record the caller holds
UpdateFromRecord ==
    /\ held # NoRef
    /\ \E m \in {update(Cur, [rec |-> held, map |-> NoData], FALSE, DefaultKeyOrder)} :
        Finish(m, IF m.exc = "none" THEN m.ret ELSE held)

\* container.update_all(text)
UpdateAllText ==
    \E doc \in JsonDocs :
    \E ko \in KeyOrdersForAll(DocItems(doc)), so \in SetOrdersFor(order) :
    \E m \in {update_all(Cur, TextData(doc), ko, so)} :
        Finish(m, held)

\* container.update_all(sequence of mappings)
UpdateAllSeq ==
    \E seq \in Batches :
    \E ko \in KeyOrdersForAll(seq), so \in SetOrdersFor(order) :
    \E m \in {update_all(Cur, SeqData(seq), ko, so)} :
        Finish(m, held)

Next ==
    \/ Create
    \/ CreateWithUid
    \/ Add
    \/ SetItem
    \/ DelItem
    \/ Reorder
    \/ UpdateOrder
    \/ Update
    \/ UpdateFromRecord
    \/ UpdateAllText
    \/ UpdateAllSeq

Spec == Init /\ [][Next]_vars

\* only add, create and update are called
NextACU ==
    \/ Create
    \/ CreateWithUid
    \/ Add
    \/ Update
    \/ UpdateFromRecord

SpecACU == Init /\ [][NextACU]_vars

\* ---------------------------------------------------------------------
\* Schemas (zope.schema interfaces) the catalog is called with
\* ---------------------------------------------------------------------
MaxSchemas == 5       \* schemas the host binds

\* schema.__identifier__
SchemaName == <<"app.IA", "app.IB", "app.IC", "app.ID", "app.IE", "app.IF">>
Field(name, kind) == [name |-> name, kind |-> kind]
\* getFieldsInOrder(schema): every schema has a title; some share a body,
\* a count, a blob and tags (a List of TextLine); the fourth has a title
\* and a blob only
SchemaFields(i) ==
    <<Field("title", "TextLine")>>
    \o (IF i <= 3 THEN <<Field("body", "Text")>> ELSE <<>>)
    \o (IF i >= 3 /\ i % 2 = 1 THEN <<Field("count", "Int")>> ELSE <<>>)
    \o (IF i % 2 = 0 THEN <<Field("blob", "Bytes")>> ELSE <<>>)
    \o (IF i % 4 = 1 THEN <<Field("tags", "List")>> ELSE <<>>)
Interface(i) == [identifier |-> SchemaName[i], fields |-> SchemaFields(i)]
Schemas == {Interface(i) : i \in 1..MaxSchemas}
\* an object that is no interface
NotASchema == [identifier |-> Absent, fields |-> <<>>]
\* IInterface.providedBy(schema)
IsInterface(schema) == schema.identifier # Absent

\* ---------------------------------------------------------------------
\* schemainfo.py: FieldInfo and SchemaInfo
\* ---------------------------------------------------------------------
\* field_types(field)[0]: the first IField interface the field provides
field_types(field) ==
    CASE field.kind = "TextLine" -> "ITextLine"
      [] field.kind = "Text" -> "IText"
      [] field.kind = "Bytes" -> "IBytes"
      [] field.kind = "BytesLine" -> "IBytesLine"
      [] field.kind = "List" -> "IList"
      [] OTHER -> "IInt"

\* isinstance(fieldinfo.fieldtype, ICollection): fieldtype is an interface
\* object, an instance of InterfaceClass, which does not derive from
\* ICollection
isinstance_ICollection(fieldtype) == FALSE

field_index_types_bytes_indexed(fieldtype) ==
    IF isinstance_ICollection(fieldtype) THEN <<"keyword">>
    ELSE CASE fieldtype \in {"ITextLine", "IBytesLine"} -> <<"field", "text">>
           [] fieldtype = "IText" -> <<"text">>
           [] OTHER -> <<"field">>

field_index_types(fieldtype) ==
    IF isinstance_ICollection(fieldtype) THEN <<"keyword">>
    ELSE CASE fieldtype \in {"ITextLine", "IBytesLine"} -> <<"field", "text">>
           [] fieldtype = "IText" -> <<"text">>
           [] fieldtype = "IBytes" -> <<>>
           [] OTHER -> <<"field">>

\* '.'.join((idxtype, fieldtype, fieldinfo.name))
field_index_name(idxtype, fieldtype, name) == <<idxtype, fieldtype, name>>

\* FieldInfo(context, field), with _add_index_names
FieldInfo(field) ==
    LET fieldtype == field_types(field)
        idxtypes == field_index_types(fieldtype)
    IN [name |-> field.name, fieldtype |-> fieldtype,
        indexes |-> [k \in 1..Len(idxtypes) |->
                        field_index_name(idxtypes[k], fieldtype, field.name)]]

\* SchemaInfo(context, schema)
SchemaInfo(schema) ==
    [namespace |-> "dotted", name |-> schema.identifier,
     fields |-> [k \in 1..Len(schema.fields) |-> FieldInfo(schema.fields[k])],
     indexes |-> <<>>]

\* None, where an interface is expected
NoInterface == [identifier |-> PyNone, fields |-> <<>>]

\* queryUtility(provided, name=name) is None
queryUtility(provided, name) == <<provided, name>> \in utilities

\* DottedNameInterfaceResolver.__call__: zope.dottedname's resolve(name)
\* looks the name up in the host's modules, which hold the schemas
DottedNameInterfaceResolver(name) ==
    IF \A iface \in Schemas : iface.identifier # name THEN NoInterface   \* ImportError
    ELSE Bind(CHOOSE iface \in Schemas : iface.identifier = name,
              LAMBDA iface : IF ~IsInterface(iface) THEN NoInterface ELSE iface)

\* the first registered resolver answers, whatever the namespace of the info
SchemaInfo_call_any_resolver(info) ==
    IF info.namespace # "dotted" THEN NoInterface
    ELSE IF \A u \in utilities : u[1] # "ISchemaResolver" THEN NoInterface
    ELSE DottedNameInterfaceResolver(info.name)

\* SchemaInfo.__call__
SchemaInfo_call(info) ==
    IF info.namespace # "dotted" THEN NoInterface
    ELSE IF ~queryUtility("ISchemaResolver", "dottedname") THEN NoInterface
    ELSE DottedNameInterfaceResolver(info.name)

\* FieldInfo.__call__ of a FieldInfo whose context is info; None is a
\* field of no name
FieldInfo_call(info, fieldinfo) ==
    Bind(SchemaInfo_call(info), LAMBDA iface :
        IF iface = NoInterface THEN Field(PyNone, PyNone)
        ELSE IF \A k \in 1..Len(iface.fields) : iface.fields[k].name # fieldinfo.name
        THEN Field(PyNone, PyNone)
        ELSE iface.fields[CHOOSE k \in 1..Len(iface.fields) :
                              iface.fields[k].name = fieldinfo.name])

\* the index names derived from the fields of a schema
DerivedIndexes(schema) ==
    UNION {ToSet(SchemaInfo(schema).fields[k].indexes) : k \in 1..Len(schema.fields)}

\* ---------------------------------------------------------------------
\* catalog.py: RecordCatalog
\* ---------------------------------------------------------------------
\* The running call on the catalog
Catalog == [indexer |-> indexer, supported |-> supported,
            _index_owners |-> _index_owners, exc |-> "none"]

\* self.indexer[idxname] = idxcls(callback); id tells one index object
\* from another made later for the same name
_add_index(c, idxname, idxtype) ==
    IF idxtype \notin {"field", "text", "keyword"} THEN Raise(c, "KeyError")
    ELSE [c EXCEPT !.indexer =
             DictSet(@, idxname, [idxcls |-> idxtype, callback |-> idxname,
                                  id |-> Cardinality(DOMAIN c.indexer) + 1])]

\* the loop body making a new index whether or not the name is taken
BindIndex_always_adds(c, info, idxname) ==
    Bind(_add_index(c, idxname, idxname[1]), LAMBDA c1 :
         IF c1.exc # "none" THEN c1
         ELSE [c1 EXCEPT !._index_owners =
                  DictSet(@, idxname, Append(DictGet(@, idxname, <<>>), info.name))])

\* the body of the loop "for idxname in fieldinfo.indexes"
BindIndex(c, info, idxname) ==
    IF idxname \in DOMAIN c.indexer THEN c
    ELSE Bind(_add_index(c, idxname, idxname[1]), LAMBDA c1 :
         IF c1.exc # "none" THEN c1
         ELSE [c1 EXCEPT !._index_owners =
                  DictSet(@, idxname, Append(DictGet(@, idxname, <<>>), info.name))])

\* the loops "for fieldinfo in info.fields: for idxname in fieldinfo.indexes"
RECURSIVE BindLoop(_, _, _, _)
BindLoop(c, info, f, k) ==
    IF f > Len(info.fields) \/ c.exc # "none" THEN c
    ELSE IF k > Len(info.fields[f].indexes) THEN BindLoop(c, info, f + 1, 1)
    ELSE Bind(BindIndex(c, info, info.fields[f].indexes[k]),
              LAMBDA c1 : BindLoop(c1, info, f, k + 1))

\* bind(schema, omit, index_types); getMultiAdapter finds no adapter for
\* an object that is no interface
bind(c, schema, omit, index_types) ==
    IF ~IsInterface(schema) THEN Raise(c, "ComponentLookupError")
    ELSE Bind(SchemaInfo(schema), LAMBDA info :
         Bind(BindLoop(c, info, 1, 1), LAMBDA c1 :
            IF c1.exc # "none" THEN c1
            ELSE [c1 EXCEPT !.supported = DictSet(@, info.name, info)]))

\* unbind with line 130 deleting self.supported[info.name] and the loop
\* running over the index names of the schema's fields
unbind_removes_created(c, schema, remove_indexes) ==
    IF ~IsInterface(schema) THEN Raise(c, "ComponentLookupError")
    ELSE Bind(SchemaInfo(schema), LAMBDA info :
         IF info.name \notin DOMAIN c.supported THEN c
         ELSE LET dead == IF remove_indexes
                          THEN {n \in DerivedIndexes(schema) \cap DOMAIN c.indexer :
                                   DictGet(c._index_owners, n, <<>>) = <<info.name>>}
                          ELSE {}
              IN [c EXCEPT !.supported = DictDel(@, info.name),
                           !.indexer = [n \in DOMAIN @ \ dead |-> @[n]],
                           !._index_owners = [n \in DOMAIN @ \ dead |-> @[n]]])

\* unbind(schema, remove_indexes): line 130 names the undefined variable
\* name where info.name is meant
unbind(c, schema, remove_indexes) ==
    IF ~IsInterface(schema) THEN Raise(c, "ComponentLookupError")
    ELSE Bind(SchemaInfo(schema), LAMBDA info :
         IF info.name \in DOMAIN c.supported THEN Raise(c, "NameError")
         ELSE c)

\* what a catalog call leaves behind
CatalogFinish(c) ==
    /\ indexer' = c.indexer
    /\ supported' = c.supported
    /\ _index_owners' = c._index_owners
    /\ UNCHANGED <<entries, order, heap, cattr, held, utilities>>

CatalogBind ==
    \E schema \in Schemas \cup {NotASchema}, omit \in {{}, {"title"}},
       index_types \in {PyNone, "text"} :
    \E c \in {bind(Catalog, schema, omit, index_types)} :
        CatalogFinish(c)

CatalogUnbind ==
    \E schema \in Schemas \cup {NotASchema}, remove_indexes \in BOOLEAN :
    \E c \in {unbind(Catalog, schema, remove_indexes)} :
        CatalogFinish(c)

\* ---------------------------------------------------------------------
\* catalog.py: the deferred methods of RecordCatalog
\* ---------------------------------------------------------------------
DeferredNames ==
    {"searchable", "uniqueValuesFor", "comparatorsFor", "index", "unindex",
     "reindex", "__getitem__", "get", "__setitem__", "search", "query"}

\* The parameter list of each deferred method as the class body writes it:
\* only searchable names self
Signature(op) ==
    LET Sig(params, defaults, varargs, varkw) ==
            [params |-> params, defaults |-> defaults,
             varargs |-> varargs, varkw |-> varkw]
    IN CASE op = "searchable" -> Sig(<<"self", "schema">>, 0, FALSE, FALSE)
         [] op \in {"uniqueValuesFor", "comparatorsFor"} -> Sig(<<"index">>, 0, FALSE, FALSE)
         [] op \in {"index", "reindex"} -> Sig(<<"record", "uid", "getuid">>, 2, FALSE, FALSE)
         [] op = "unindex" -> Sig(<<"uid">>, 0, FALSE, FALSE)
         [] op = "__getitem__" -> Sig(<<"name">>, 0, FALSE, FALSE)
         [] op = "get" -> Sig(<<"name", "default">>, 1, FALSE, FALSE)
         [] op = "__setitem__" -> Sig(<<"name", "index">>, 0, FALSE, FALSE)
         [] op = "search" -> Sig(<<>>, 0, FALSE, TRUE)
         [] OTHER -> Sig(<<"query">>, 0, TRUE, TRUE)

\* Binding nargs positional and the keyword arguments kwargs to a
\* parameter list: TRUE when the call is accepted, FALSE for TypeError
PyCall(sig, nargs, kwargs) ==
    LET n == Len(sig.params)
    IN /\ nargs <= n \/ sig.varargs
       /\ \A kw \in kwargs :
            IF kw \in Range(sig.params)
            THEN \A i \in 1..n : sig.params[i] = kw => i > nargs
            ELSE sig.varkw
       /\ \A i \in 1..(n - sig.defaults) : i <= nargs \/ sig.params[i] \in kwargs

\* catalog.<op>(*args, **kwargs): the bound method passes the catalog as
\* the first positional argument; every body is raise NotImplementedError
deferred(c, op, nargs, kwargs) ==
    IF ~PyCall(Signature(op), nargs + 1, kwargs) THEN Raise(c, "TypeError")
    ELSE Raise(c, "NotImplementedError")

\* The calls the contract IRecordCatalog names for each deferred method
ContractCalls(op) ==
    LET Call(nargs, kwargs) == [nargs |-> nargs, kwargs |-> kwargs]
    IN CASE op \in {"index", "reindex"} ->
                {Call(1, {}), Call(2, {}), Call(3, {}), Call(1, {"uid"}),
                 Call(1, {"getuid"}), Call(1, {"uid", "getuid"})}
         [] op = "get" -> {Call(1, {}), Call(2, {}), Call(1, {"default"})}
         [] op = "__setitem__" -> {Call(2, {})}
         [] op = "search" -> {Call(0, {}), Call(0, {"title"})}
         [] op = "query" -> {Call(1, {}), Call(2, {}), Call(1, {"sort"})}
         [] OTHER -> {Call(1, {})}

CatalogDeferred ==
    \E op \in DeferredNames : \E call \in ContractCalls(op) :
    \E c \in {deferred(Catalog, op, call.nargs, call.kwargs)} :
        CatalogFinish(c)

\* gsm.registerUtility(factory=..., provided=ISchemaResolver, name=...):
\* the host registers a resolver, under the name the package looks up or
\* under another
RegisterResolver ==
    /\ \E name \in {"dottedname", "other"} :
         utilities' = utilities \cup {<<"ISchemaResolver", name>>}
    /\ UNCHANGED <<entries, order, heap, cattr, held, indexer, supported,
                   _index_owners>>

NextCatalog ==
    \/ CatalogBind
    \/ CatalogUnbind
    \/ CatalogDeferred
    \/ RegisterResolver

SpecCatalog == Init /\ [][NextCatalog]_vars

\* ---------------------------------------------------------------------
\* What the claims speak of
\* ---------------------------------------------------------------------
\* the entries: the keys and, under each, the record's UID and field values
Contents(m) ==
    [k \in DOMAIN m.entries |->
        [record_uid |-> m.heap[m.entries[k]].record_uid,
         attrs |-> m.heap[m.entries[k]].attrs]]
SameStore(a, b) == Contents(a) = Contents(b) /\ a.order = b.order

\* the container after a call, ready for the next call
Again(m) == Machine(m.entries, m.order, m.heap, m.cattr, m.held)

\* every argument update_all is tried with
JsonDocsAll == JsonDocs \cup {JsonEnvelope(b) : b \in JsonBatches}
UpdateAllInputs == {TextData(d) : d \in JsonDocsAll} \cup {SeqData(b) : b \in Batches}
ItemsOf(data) == IF data.type = "str" THEN DocItems(data.doc) ELSE data.seq
HasAllUids(data) == \A i \in 1..Len(ItemsOf(data)) : ItemsOf(data)[i]["record_uid"] # Absent
UidsOf(data) ==
    [i \in 1..Len(ItemsOf(data)) |-> PyStr(json_loads_value(ItemsOf(data)[i]["record_uid"]))]
CountEvents(m, ev) == Cardinality({i \in 1..Len(m.events) : m.events[i] = ev})
RecordModifiedEvents(m) ==
    {i \in 1..Len(m.events) : m.events[i].kind = "modified" /\ m.events[i].obj # "container"}

\* C1: after any sequence of container operations order holds no UID
\* twice, the UIDs in order are the keys of entries, and
\* len(container) = len(order) = len(entries).
C1_OrderMatchesEntries ==
    /\ NoDup(order)
    /\ ToSet(order) = DOMAIN entries
    /\ __len__(Cur) = Len(order)
    /\ Len(order) = Cardinality(DOMAIN entries)

\* C2: when only add, create and update are called, keys() is the order
\* sequence and the set of keys() is the key set of entries.
C2_KeysAreOrder ==
    /\ keys(Cur) = order
    /\ ToSet(keys(Cur)) = DOMAIN entries

C2_Witness ==
    /\ order = <<"u2", "u1">>
    /\ DOMAIN entries = {"u1", "u2"}
    /\ keys(Cur) = <<"u2", "u1">>

\* C3: for any prior state and any batch whose every entry carries a UID,
\* after update_all the contained UIDs are exactly those of the batch and
\* order is the batch's UID sequence.
C3_UpdateAllExact ==
    \A data \in UpdateAllInputs :
        HasAllUids(data) =>
            \A ko \in KeyOrdersForAll(ItemsOf(data)), so \in SetOrdersFor(order) :
                LET m == update_all(Cur, data, ko, so)
                IN /\ DOMAIN m.entries = ToSet(UidsOf(data))
                   /\ m.order = UidsOf(data)

\* C4: update_all is idempotent on state: the same batch applied a second
\* time leaves entries (keys and field values) and order as the first
\* application left them.
C4_UpdateAllIdempotent ==
    \A data \in UpdateAllInputs :
        \A ko \in KeyOrdersForAll(ItemsOf(data)), so \in SetOrdersFor(order) :
            LET m1 == update_all(Cur, data, ko, so)
                m2 == update_all(Again(m1), data, ko, so)
            IN SameStore(m2, m1)

C4_Witness ==
    \E doc \in JsonDocs :
        LET m1 == update_all(Cur, TextData(doc), DefaultKeyOrder, <<"u1", "u2">>)
            m2 == update_all(Again(m1), TextData(doc), DefaultKeyOrder, <<"u1", "u2">>)
        IN /\ m1.exc = "none"
           /\ order # <<>>
           /\ m1.order # order
           /\ Len(m1.order) = 2
           /\ Contents(m1) # Contents(Cur)
           /\ m2.exc = "none"
           /\ SameStore(m2, m1)

\* C5: update or update_all with data whose every field value equals the
\* value the stored record holds fires no modified event for the record.
C5_NoModifiedWhenUnchanged ==
    \A data \in Mappings :
        (/\ data["record_uid"] # Absent
         /\ PyStr(data["record_uid"]) \in DOMAIN entries
         /\ \A k \in FieldKeys :
               data[k] # Absent => data[k] = heap[entries[PyStr(data["record_uid"])]].attrs[k])
        => /\ RecordModifiedEvents(update(Cur, [rec |-> NoRef, map |-> data], FALSE,
                                          DefaultKeyOrder)) = {}
           /\ RecordModifiedEvents(update_all(Cur, SeqData(<<data>>), DefaultKeyOrder,
                                              <<"u1", "u2">>)) = {}

\* C6: update_all fires exactly one container-level modified event in a
\* call that changes anything in the container (a record created, a field
\* changed, a record removed) and none in a call that changes nothing.
C6_OneConsolidatedEvent ==
    \A data \in UpdateAllInputs :
        \A ko \in KeyOrdersForAll(ItemsOf(data)), so \in SetOrdersFor(order) :
            LET m == update_all(Cur, data, ko, so)
            IN m.exc = "none" =>
                 CountEvents(m, ContainerModifiedEvent)
                    = (IF Contents(m) # Contents(Cur) THEN 1 ELSE 0)

\* C7: update_all of a batch in which an entry lacks a UID fails and
\* leaves entries and order as they were, wherever the entry stands and
\* whether the batch is text or a sequence.
C7_MissingUidLeavesStore ==
    \A data \in UpdateAllInputs :
        ~HasAllUids(data) =>
            \A ko \in KeyOrdersForAll(ItemsOf(data)), so \in SetOrdersFor(order) :
                LET m == update_all(Cur, data, ko, so)
                IN m.exc # "none" /\ SameStore(m, Cur)

\* C8: update_all with a sequence of field-mappings completes and yields
\* the entries and order that update_all with its JSON text yields.
C8_SequenceAsText ==
    \A seq \in Batches :
        HasAllUids(SeqData(seq)) =>
            \A ko \in KeyOrdersForAll(seq), so \in SetOrdersFor(order) :
                LET a == update_all(Cur, SeqData(seq), ko, so)
                    b == update_all(Cur, TextData(json_dumps(seq)), ko, so)
                IN a.exc = "none" /\ SameStore(a, b)

\* C9: as text, a bare object without a list-valued member entries acts
\* as the one-element array holding it, and an envelope object acts on
\* entries and order as the bare array of its entries.
C9_EnvelopeDetection ==
    /\ \A o \in BareObjects :
         \A ko \in KeyOrdersFor(o), so \in SetOrdersFor(order) :
            update_all(Cur, TextData(JsonObject(o)), ko, so)
                = update_all(Cur, TextData(JsonArray(<<o>>)), ko, so)
    /\ \A b \in JsonBatches :
         \A ko \in KeyOrdersForAll(b), so \in SetOrdersFor(order) :
            SameStore(update_all(Cur, TextData(JsonEnvelope(b)), ko, so),
                      update_all(Cur, TextData(JsonArray(b)), ko, so))

C9_Witness ==
    /\ Len(order) = 2
    /\ \E o \in BareObjects :
         LET m == update_all(Cur, TextData(JsonObject(o)), DefaultKeyOrder, <<"u1", "u2">>)
         IN /\ o["entries"] = "null"
            /\ m.exc = "none"
            /\ Len(m.order) = 1
            /\ m = update_all(Cur, TextData(JsonArray(<<o>>)), DefaultKeyOrder, <<"u1", "u2">>)
    /\ \E b \in JsonBatches :
         LET m == update_all(Cur, TextData(JsonEnvelope(b)), DefaultKeyOrder, <<"u1", "u2">>)
         IN /\ Len(b) = 2
            /\ m.exc = "none"
            /\ m.order # order
            /\ SameStore(m, update_all(Cur, TextData(JsonArray(b)), DefaultKeyOrder,
                                       <<"u1", "u2">>))

\* C10: add(record) with a UID already contained replaces the stored
\* entry and leaves order unchanged; with an absent UID it appends the UID
\* at the end of order and leaves the order of the others unchanged.
C10_AddKeepsOrder ==
    held # NoRef =>
        LET uid == heap[held].record_uid
            m == add(Cur, held)
        IN /\ m.exc = "none"
           /\ m.entries = DictSet(entries, uid, held)
           /\ __contains__(Cur, uid) => m.order = order
           /\ ~__contains__(Cur, uid) => m.order = Append(order, uid)

\* the arguments create is tried with: a mapping, the UID uuid4 would
\* draw, the iteration order of the mapping; the caller holds no record
CreateInputs ==
    {[data |-> d, fresh |-> f, ko |-> ko] :
        d \in Mappings, f \in UIDS, ko \in KeyOrders}
CreateCall(a) == create([Cur EXCEPT !.held = NoRef], a.data, a.fresh, a.ko)
CountKind(m, kind) == Cardinality({i \in 1..Len(m.events) : m.events[i].kind = kind})

\* C11: create(data) never inserts: for any data, entries and order after
\* create are those before, and the returned record's UID is contained
\* only if it was contained before the call.
C11_CreateNeverInserts ==
    \A a \in CreateInputs :
        LET m == CreateCall(a)
        IN /\ m.entries = entries
           /\ m.order = order
           /\ Contents(m) = Contents(Cur)
           /\ m.ret # NoRef =>
                 (__contains__(m, m.heap[m.ret].record_uid)
                     <=> __contains__(Cur, m.heap[m.ret].record_uid))

C11_Witness ==
    /\ held # NoRef
    /\ order = <<"u1">>
    /\ heap[held].record_uid = "u2"
    /\ heap[held].attrs["count"] = "1"
    /\ ~__contains__(Cur, "u2")
    /\ LET m == create([Cur EXCEPT !.held = NoRef], Mapping("u2", "1"), "u2", DefaultKeyOrder)
       IN m.ret # NoRef /\ m.heap[m.ret].attrs["count"] = "1" /\ m.order = <<"u1">>

\* the fields the record a call returned holds
CopiedFields(m) == {k \in FieldKeys : m.heap[m.ret].attrs[k] # Absent}

\* C12: every create() call fires exactly one created event; it fires no
\* modified event when no field is copied (no data, empty data, no key
\* accepted by the whitelist) and exactly one when a field is copied.
C12_CreateEvents ==
    \A a \in CreateInputs :
        LET m == CreateCall(a)
        IN /\ CountKind(m, "created") = 1
           /\ m.ret # NoRef
           /\ CountKind(m, "modified") = (IF CopiedFields(m) = {} THEN 0 ELSE 1)

\* the kinds of the events a call fired for records, in the order fired
IsRecordEvent(ev) == ev.obj # "container"
RecordEventKinds(m) ==
    LET evs == SelectSeq(m.events, IsRecordEvent)
    IN [i \in 1..Len(evs) |-> evs[i].kind]
\* update(data) with a field-mapping, the iteration order of the mapping ko
UpdateCall(data, ko) == update(Cur, [rec |-> NoRef, map |-> data], FALSE, ko)
ModifiedFirst(m) == IF CopiedFields(m) = {} THEN <<>> ELSE <<"modified">>

\* C13: a create(data) that copies a field fires modified before created;
\* an update(data) for a UID not contained fires the record's events in
\* the order modified, created, added.
C13_EventOrder ==
    /\ \A a \in CreateInputs :
          LET m == CreateCall(a)
          IN m.exc = "none" => RecordEventKinds(m) = ModifiedFirst(m) \o <<"created">>
    /\ \A data \in Mappings, ko \in KeyOrders :
          (data["record_uid"] # Absent /\ ~__contains__(Cur, data["record_uid"])) =>
              LET m == UpdateCall(data, ko)
              IN m.exc = "none" =>
                    RecordEventKinds(m) = ModifiedFirst(m) \o <<"created", "added">>

C13_Witness ==
    /\ order = <<"u1">>
    /\ ~__contains__(Cur, "u2")
    /\ LET m == UpdateCall(Mapping("u2", "1"), DefaultKeyOrder)
       IN /\ RecordEventKinds(m) = <<"modified", "created", "added">>
          /\ m.order = <<"u1", "u2">>
    /\ LET c == create([Cur EXCEPT !.held = NoRef], Mapping(Absent, "2"), "u2", DefaultKeyOrder)
       IN RecordEventKinds(c) = <<"modified", "created">>

\* the documented whitelist: a primitive scalar, or a sequence or mapping
\* of such scalars
DocumentedWhitelist(v) ==
    \/ PyType(v) \in TYPE_WHITELIST
    \/ PyType(v) \in SEQUENCE_WHITELIST /\ \A e \in SeqElems(v) : PyType(e) \in TYPE_WHITELIST
    \/ PyType(v) \in MAPPING_WHITELIST
SuppliedFields(data) == {k \in FieldKeys : data[k] # Absent}
\* the post-condition of update for a UID already contained
UpdatedInPlace(m, uid, data) ==
    /\ m.exc = "none"
    /\ __len__(m) = __len__(Cur)
    /\ m.order = order
    /\ DOMAIN m.entries = DOMAIN entries
    /\ m.ret = entries[uid]
    /\ get(m, uid, PyNone) = entries[uid]
    /\ \A k \in SuppliedFields(data) : m.heap[m.ret].attrs[k] = data[k]
    /\ Cardinality(RecordModifiedEvents(m)) = 1
    /\ CountKind(m, "created") = 0
    /\ CountKind(m, "added") = 0

\* C14: update(data) whose UID is contained, data a field-mapping or
\* another record with that UID, keeps length and order, returns the
\* record object already stored with the supplied fields set to the new
\* values, fires exactly one record-level modified event and no created
\* or added event.
C14_UpdateExisting ==
    /\ \A data \in Mappings, ko \in KeyOrders :
          (/\ data["record_uid"] # Absent
           /\ __contains__(Cur, data["record_uid"])
           /\ SuppliedFields(data) # {}
           /\ \A k \in SuppliedFields(data) : DocumentedWhitelist(data[k]))
          => UpdatedInPlace(UpdateCall(data, ko), PyStr(data["record_uid"]), data)
    /\ (/\ held # NoRef
        /\ __contains__(Cur, heap[held].record_uid)
        /\ SuppliedFields(heap[held].attrs) # {})
       => UpdatedInPlace(update(Cur, [rec |-> held, map |-> NoData], FALSE, DefaultKeyOrder),
                         heap[held].record_uid, heap[held].attrs)

\* the post-condition of update for a UID not contained
CreatedAndStored(m, uid) ==
    /\ m.exc = "none"
    /\ m.ret # NoRef
    /\ m.heap[m.ret].record_uid = uid
    /\ m.order = Append(order, uid)
    /\ __len__(m) = __len__(Cur) + 1
    /\ __contains__(m, uid)
    /\ get(m, uid, PyNone) = m.ret
    /\ \A k \in DOMAIN entries : m.entries[k] = entries[k]

\* C15: update(data) whose UID is not contained creates a record with
\* that UID, stores it and appends the UID at the end of order: the
\* length grows by one, the UID is contained, and the record returned is
\* the one get(uid) returns.
C15_UpdateNew ==
    \A data \in Mappings, ko \in KeyOrders :
        (data["record_uid"] # Absent /\ ~__contains__(Cur, data["record_uid"]))
        => CreatedAndStored(UpdateCall(data, ko), PyStr(data["record_uid"]))

\* data carrying, besides its own keys, a key that starts with an
\* underscore; the iteration order of its items
UnderscoreData(d) ==
    [k \in DataKeys \cup {"_bad_name"} |-> IF k = "_bad_name" THEN "1" ELSE d[k]]
UnderscoreOrder(ko) == <<"_bad_name">> \o ko
\* what a record holds after a faithful copy of data
CopiedFaithfully(rec, data) ==
    \A k \in FieldKeys :
        rec.attrs[k] = (IF data[k] # Absent /\ DocumentedWhitelist(data[k])
                        THEN data[k] ELSE Absent)

\* C16: the record create(data) returns holds, for each key whose value is
\* of a whitelisted type (a scalar, or a sequence or mapping of scalars),
\* the supplied value; keys starting with an underscore and values of a
\* disallowed type are absent from it, skipped without raising.
C16_FieldRoundTrip ==
    \A a \in CreateInputs, underscore \in BOOLEAN :
        LET data == IF underscore THEN UnderscoreData(a.data) ELSE a.data
            ko == IF underscore THEN UnderscoreOrder(a.ko) ELSE a.ko
            m == create([Cur EXCEPT !.held = NoRef], data, a.fresh, ko)
        IN /\ m.exc = "none"
           /\ m.ret # NoRef
           /\ CopiedFaithfully(m.heap[m.ret], data)

\* the keys of data whose value differs from the value the record holds
DifferingKeys(rec, data) ==
    {k \in SuppliedFields(data) : DocumentedWhitelist(data[k]) /\ data[k] # rec.attrs[k]}
\* the sets of names the record-level modified events of a call carry
NamedByModified(m) == {m.events[i].attrs : i \in RecordModifiedEvents(m)}

\* C17: the modified event a field copy fires names exactly the keys whose
\* supplied value differs from the value the target record held before:
\* an unchanged key is never named, every changed key is named.
C17_ModifiedNamesChangedKeys ==
    \A data \in Mappings, ko \in KeyOrders :
        (data["record_uid"] # Absent /\ __contains__(Cur, data["record_uid"])) =>
            LET target == heap[entries[PyStr(data["record_uid"])]]
                m == UpdateCall(data, ko)
            IN NamedByModified(m) = {DifferingKeys(target, data)} \ {{}}

\* what reorder is called with: a UID, or the record the caller holds
ReorderArgs == (UIDS \cup {held}) \ {NoRef}
UidOf(record) == IF providedBy(record) THEN heap[record].record_uid ELSE record
\* the sequence s without x
Without(s, x) == SelectSeq(s, LAMBDA y : y # x)
Min(a, b) == IF a < b THEN a ELSE b

\* C18: reorder(x, offset) for a contained x (record or UID) and
\* offset >= 0 places x at index min(offset, len-1) of order, keeps the
\* relative order of the other UIDs, and changes neither the set of UIDs
\* in order nor entries.
C18_ReorderPlaces ==
    \A x \in ReorderArgs, offset \in 0..MaxOffset :
        __contains__(Cur, x) =>
            LET m == reorder(Cur, x, offset)
            IN /\ m.exc = "none"
               /\ m.order[Min(offset, Len(order) - 1) + 1] = UidOf(x)
               /\ Without(m.order, UidOf(x)) = Without(order, UidOf(x))
               /\ Len(m.order) = Len(order)
               /\ ToSet(m.order) = ToSet(order)
               /\ m.entries = entries
               /\ Contents(m) = Contents(Cur)

C18_Witness ==
    /\ order = <<"u2", "u1">>
    /\ held # NoRef
    /\ heap[held].record_uid = "u2"
    /\ __contains__(Cur, held)
    /\ reorder(Cur, held, 1).order = <<"u1", "u2">>
    /\ reorder(Cur, "u1", 0).order = <<"u1", "u2">>
    /\ reorder(Cur, "u2", MaxOffset).order = <<"u1", "u2">>

\* C19: for any container state, any contained x whose index in order is
\* i and any offset, reorder(x, offset) followed by reorder(x, i) restores
\* the original order exactly.
C19_ReorderRoundTrip ==
    \A x \in ReorderArgs, offset \in (-MaxOffset)..MaxOffset :
        __contains__(Cur, x) =>
            LET m1 == reorder(Cur, x, offset)
                m2 == reorder(m1, x, ListIndex(order, UidOf(x)) - 1)
            IN /\ m1.exc = "none"
               /\ m2.exc = "none"
               /\ m2.order = order

\* C20: reorder clamps its offset to non-negative: for every negative
\* offset the entry is moved to position 0 of order, as with offset 0.
C20_NegativeOffsetClamped ==
    \A x \in ReorderArgs, offset \in (-MaxOffset)..(-1) :
        __contains__(Cur, x) =>
            LET m == reorder(Cur, x, offset)
            IN /\ m.exc = "none"
               /\ m.order[1] = UidOf(x)
               /\ m.order = reorder(Cur, x, 0).order

\* C21: updateOrder(newOrder) succeeds if and only if newOrder is a
\* permutation of the current order (same length, no duplicates, same key
\* set); on success order equals newOrder and entries are unchanged; on
\* failure order and entries are unchanged.
C21_UpdateOrderPermutation ==
    \A neworder \in SeqsUpTo(UIDS, MaxRecs) :
        LET m == updateOrder(Cur, neworder)
            permutation == /\ Len(neworder) = Len(order)
                           /\ NoDup(neworder)
                           /\ ToSet(neworder) = ToSet(order)
        IN /\ (m.exc = "none") <=> permutation
           /\ m.order = (IF m.exc = "none" THEN neworder ELSE order)
           /\ m.entries = entries
           /\ Contents(m) = Contents(Cur)
           /\ m.events = <<>>

C21_Witness ==
    /\ order = <<"u2", "u1">>
    /\ DOMAIN entries = {"u1", "u2"}
    /\ updateOrder(Cur, <<"u1", "u2">>).exc = "none"
    /\ updateOrder(Cur, <<"u1", "u2">>).order = <<"u1", "u2">>
    /\ updateOrder(Cur, <<"u1", "u1">>).exc = "ValueError"
    /\ updateOrder(Cur, <<"u1">>).order = order

\* C22: deleting a contained UID, given either as the UID or as a record
\* carrying that UID, removes exactly that UID from both entries and
\* order, leaves every other entry and the relative order of the
\* remaining UIDs unchanged, and fires exactly one removed event for it.
C22_DeleteRemovesExactlyOne ==
    \A record \in (UIDS \cup UUIDObjs \cup UnicodeUIDS \cup {held}) \ {NoRef} :
        __contains__(Cur, record) =>
            LET uid == PyStr(UidOf(record))
                m == __delitem__(Cur, record)
            IN /\ m.exc = "none"
               /\ DOMAIN m.entries = DOMAIN entries \ {uid}
               /\ \A k \in DOMAIN m.entries : m.entries[k] = entries[k]
               /\ uid \notin ToSet(m.order)
               /\ m.order = Without(order, uid)
               /\ Len(m.events) = 1
               /\ m.events[1].kind = "removed"
               /\ m.events[1].name = uid

\* C23: every rejected single-record operation leaves entries and order
\* unchanged and fires no event: add of a record with empty UID, update of
\* data from which no UID can be determined, reorder of a UID not in
\* order, deletion or indexed access of a UID not contained, and item
\* assignment with a non-UUID key or a non-record value; get(uid, default)
\* for an unknown UID returns the default without raising.
C23_RejectedLeavesNoTrace ==
    LET Rejected(m, before) ==
            /\ m.exc # "none"
            /\ m.entries = before.entries
            /\ m.order = before.order
            /\ Contents(m) = Contents(before)
            /\ m.events = <<>>
        emptied == [Cur EXCEPT !.heap[held].record_uid = ""]
    IN /\ held # NoRef =>
             /\ Rejected(add(emptied, held), emptied)
             /\ HasRoom(Cur) =>
                    Rejected(update(emptied, [rec |-> held, map |-> NoData], FALSE,
                                    DefaultKeyOrder), emptied)
       /\ \A uid \in {Absent, PyNone, ""}, c \in {Absent, "1"} :
             Rejected(update([Cur EXCEPT !.held = NoRef],
                             [rec |-> NoRef, map |-> Mapping(uid, c)], FALSE,
                             DefaultKeyOrder), Cur)
       /\ \A x \in ReorderArgs, offset \in 0..MaxOffset :
             UidOf(x) \notin ToSet(order) => Rejected(reorder(Cur, x, offset), Cur)
       /\ \A x \in ReorderArgs \cup UUIDObjs \cup {"'1'"} :
             ~__contains__(Cur, x) =>
                 /\ Rejected(__delitem__(Cur, x), Cur)
                 /\ Rejected(__getitem__(Cur, x), Cur)
                 /\ get(Cur, x, "1") = "1"
       /\ held # NoRef =>
             \A key \in {"'1'", "u'1'", "1", PyNone} :
                 Rejected(__setitem__(Cur, key, held), Cur)
       /\ \A value \in {"1", PyNone, "u1"} : Rejected(__setitem__(Cur, "u1", value), Cur)

\* C24: every UID stored in entries and order is a 36-character string
\* form of a UUID: add, item assignment, update and update_all each
\* reject, without mutating the container, a record or key whose UID has
\* any other shape.
C24_OnlyUuidKeys ==
    LET Refused(m, before) ==
            /\ m.exc # "none"
            /\ m.entries = before.entries
            /\ m.order = before.order
        free == [Cur EXCEPT !.held = NoRef]
    IN /\ \A k \in DOMAIN entries \cup ToSet(order) : PyType(k) = "str" /\ Len36(k)
       /\ \A uid \in {"'1'", "u'1'", "1"} :
             /\ Refused(update(free, [rec |-> NoRef, map |-> Mapping(uid, "1")], FALSE,
                               DefaultKeyOrder), Cur)
             /\ Refused(update_all(free, TextData(JsonArray(<<Mapping(uid, "1")>>)),
                                   DefaultKeyOrder, <<"u1", "u2">>), Cur)
             /\ held # NoRef => Refused(__setitem__(Cur, uid, held), Cur)
       /\ held # NoRef =>
             LET misshapen == [Cur EXCEPT !.heap[held].record_uid = "'1'"]
             IN Refused(add(misshapen, held), misshapen)

\* C25: the two storage variants behave identically: for every sequence
\* of operations the B-tree-backed container and the default container
\* produce the same results, the same errors, the same events and the
\* same entries/order.  The variants share every method and start from
\* the same empty state; the formula compares create() on the two.
C25_VariantsAgree ==
    \A a \in CreateInputs, build \in {"c", "python"} :
        LET d == CreateCall(a)
            b == BTreeRecordContainer_create([Cur EXCEPT !.held = NoRef], a.data, a.ko, build)
        IN /\ b.exc = d.exc
           /\ b.events = d.events
           /\ providedBy(b.ret) <=> providedBy(d.ret)
           /\ SameStore(b, d)

\* C26: for every record, the lifecycle events observed over any sequence
\* of container operations follow the membership state machine: a record
\* becomes stored only after a created event and then an added event for
\* it, modified events for a stored record come after its added event,
\* and a removed event occurs only for a currently stored UID that had an
\* added event with no removed event since.  Stated of every single
\* operation m from every reachable state: what it stores it announces as
\* added (after created, when it made the record), and what it announces
\* as removed was stored and added before.
C26_LifecycleOrder ==
    LET Fired(m, kind, uid, upto) ==
            \E i \in 1..upto : m.events[i].kind = kind /\ m.events[i].name = uid
        Follows(m) ==
            /\ \A k \in DOMAIN m.entries :
                  (k \notin DOMAIN entries \/ m.entries[k] # entries[k])
                      => Fired(m, "added", k, Len(m.events))
            /\ \A i \in 1..Len(m.events) :
                  (m.events[i].kind = "added"
                     /\ m.events[i].name \in DOMAIN m.entries
                     /\ m.entries[m.events[i].name] \notin Range(entries) \cup {held})
                  => \E j \in 1..(i - 1) : /\ m.events[j].kind = "created"
                                           /\ m.events[j].obj = m.events[i].obj
            /\ \A i \in 1..Len(m.events) :
                  m.events[i].kind = "removed"
                      => /\ m.events[i].name \in DOMAIN entries
                            \/ Fired(m, "added", m.events[i].name, i - 1)
                         /\ m.events[i].name \in ToSet(order)
                            \/ Fired(m, "added", m.events[i].name, i - 1)
    IN /\ held # NoRef =>
             /\ Follows(add(Cur, held))
             /\ \A key \in UIDS \cup UnicodeUIDS : Follows(__setitem__(Cur, key, held))
       /\ \A x \in ReorderArgs \cup UUIDObjs : Follows(__delitem__(Cur, x))
       /\ \A data \in Mappings : \A ko \in KeyOrdersFor(data) :
             (data["record_uid"] # Absent /\ (HasRoom(Cur) \/ __contains__(Cur, data["record_uid"])))
                 => Follows(UpdateCall(data, ko))
       /\ \A data \in UpdateAllInputs :
             \A ko \in KeyOrdersForAll(ItemsOf(data)), so \in SetOrdersFor(order) :
                 Follows(update_all([Cur EXCEPT !.held = NoRef], data, ko, so))

C28_UnbindRemovesSchema ==
    \A schema \in Schemas, remove_indexes \in BOOLEAN :
        LET c == unbind(Catalog, schema, remove_indexes)
        IN /\ c.exc = "none"
           /\ schema.identifier \notin DOMAIN c.supported
           /\ \A n \in DOMAIN supported \ {schema.identifier} :
                 n \in DOMAIN c.supported /\ c.supported[n] = supported[n]
           /\ (~remove_indexes \/ schema.identifier \notin DOMAIN supported) =>
                 (c.indexer = indexer /\ c._index_owners = _index_owners)

\* C29: unbind(schema, remove_indexes=True) deletes from the indexer every
\* index of which the schema is the sole owner, and leaves in place every
\* index that a second bound schema also owns.  A bound schema owns the
\* indexes derived from its fields.
C29_UnbindRemovesOrphans ==
    \A schema \in Schemas :
        schema.identifier \in DOMAIN supported =>
            LET c == unbind(Catalog, schema, TRUE)
                shared == UNION {DerivedIndexes(s) :
                                   s \in {x \in Schemas : /\ x # schema
                                                          /\ x.identifier \in DOMAIN supported}}
            IN \A n \in DerivedIndexes(schema) :
                  n \in DOMAIN c.indexer <=> n \in shared

C31_BadOverrideRejected ==
    \A schema \in Schemas,
       index_types \in {[count |-> "text"], [title |-> "keyword"], [body |-> "keyword"]} :
        (\A name \in DOMAIN index_types :
            \E k \in 1..Len(schema.fields) : schema.fields[k].name = name) =>
            LET c == bind(Catalog, schema, {}, index_types)
            IN /\ c.exc # "none"
               /\ c.indexer = indexer
               /\ c.supported = supported
               /\ c._index_owners = _index_owners

C33_CollectionKeywordIndex ==
    \A schema \in Schemas : \A k \in 1..Len(schema.fields) :
        LET field == schema.fields[k]
            c == bind(Catalog, schema, {}, PyNone)
        IN field.kind = "List" =>
            /\ Len(FieldInfo(field).indexes) = 1
            /\ FieldInfo(field).indexes[1][1] = "keyword"
            /\ {n[1] : n \in {x \in DOMAIN c.indexer : x[3] = field.name}} = {"keyword"}

\* C34: each deferred catalog operation (searchable, uniqueValuesFor,
\* comparatorsFor, index, unindex, reindex, the item accessors, search,
\* query), when called on a catalog with the arguments its contract
\* names, ends in a 'not yet implemented' error and leaves indexer,
\* supported and the index-owner map unchanged.
C34_DeferredNotImplemented ==
    \A op \in DeferredNames : \A call \in ContractCalls(op) :
        LET c == deferred(Catalog, op, call.nargs, call.kwargs)
        IN /\ c.exc = "NotImplementedError"
           /\ c.indexer = indexer
           /\ c.supported = supported
           /\ c._index_owners = _index_owners

C36_EveryUserOwns ==
    \A A \in Schemas : \A B \in Schemas :
        (A.identifier \in DOMAIN supported /\ B.identifier \notin DOMAIN supported) =>
            LET c == bind(Catalog, B, {}, PyNone)
            IN \A n \in DerivedIndexes(A) \cap DerivedIndexes(B) :
                /\ n \in DOMAIN c._index_owners
                /\ {A.identifier, B.identifier} \subseteq ToSet(c._index_owners[n])

\* C38: bind(schema, omit=names) creates no index for any field whose
\* name is in omit: after the call, no index name derived from an omitted
\* field has been added to the indexer by that call.
C38_OmittedFieldsUnindexed ==
    \A schema \in Schemas : \A omit \in SUBSET {"title", "body", "count"} :
        LET c == bind(Catalog, schema, omit, PyNone)
        IN \A n \in DOMAIN c.indexer \ DOMAIN indexer : n[3] \notin omit

\* C37: within one update_all call the steps occur in this order: every
\* per-entry update in the batch's listed order, then the removal (with
\* one removed event each) of exactly the previously contained UIDs
\* absent from the batch, then the replacement of order, then the
\* consolidated container-level modified event; no container-level
\* modified event is fired before the order replacement and at most one
\* is fired per call.
C37_UpdateAllStepOrder ==
    \A data \in UpdateAllInputs : HasAllUids(data) =>
        \A ko \in KeyOrdersForAll(ItemsOf(data)), so \in SetOrdersFor(order) :
            LET m == update_all(Cur, data, ko, so)
                uids == UidsOf(data)
                ev == m.events
                container == {i \in 1..Len(ev) : ev[i] = ContainerModifiedEvent}
                removed == {i \in 1..Len(ev) : ev[i].kind = "removed"}
                entry == (1..Len(ev)) \ (container \cup removed)
                absent == ToSet(order) \ ToSet(uids)
            IN /\ m.exc = "none"
               \* the events of the entries follow the batch, told by the
               \* UID of their record where each record has its key's UID
               /\ (\A k \in DOMAIN entries : heap[entries[k]].record_uid = k) =>
                    \A i \in entry : \A j \in entry :
                      i < j => \E a \in 1..Len(uids) : \E b \in a..Len(uids) :
                                  ev[i].obj = uids[a] /\ ev[j].obj = uids[b]
               /\ \A i \in entry : \A j \in removed : i < j
               /\ {ev[j].name : j \in removed} = absent
               /\ Cardinality(removed) = Cardinality(absent)
               /\ DOMAIN m.entries = (DOMAIN entries \cup ToSet(uids)) \ absent
               /\ m.order = uids
               /\ \A k \in container : k = Len(ev)
               /\ Cardinality(container) <= 1

\* C39: after any sequence of container operations (including item
\* assignment with an explicit key), every stored record is stored under
\* its own UID: for every key k in entries, the record_uid of entries[k]
\* equals k.
C39_StoredUnderOwnUid ==
    \A k \in DOMAIN entries : heap[entries[k]].record_uid = k

\* C40: field copy (in create, update and update_all) reads the previous
\* value from, and writes only to, the target record: no attribute of the
\* container itself is read for change detection or modified by the copy,
\* whatever keys the data carries (including the reserved UID key).
C40_CopyTouchesOnlyRecord ==
    \A data \in Mappings : \A ko \in KeyOrdersFor(data) :
        LET created == create([Cur EXCEPT !.held = NoRef], data, "u1", ko)
            updated == UpdateCall(data, ko)
            batch == update_all(Cur, SeqData(<<data>>), ko, <<"u1", "u2">>)
        IN /\ created.cattr = cattr
           /\ updated.cattr = cattr
           /\ batch.cattr = cattr
           /\ (data["record_uid"] # Absent /\ __contains__(Cur, data["record_uid"])) =>
                \A names \in NamedByModified(updated) \cup NamedByModified(batch) :
                    names \subseteq DifferingKeys(heap[entries[PyStr(data["record_uid"])]], data)

====
